---- MODULE Spec2Model ----
(***************************************************************************)
(* Balsam site daemon: the job acquisition and processing pipeline.        *)
(*                                                                         *)
(*   Spec      ProcessingService (balsam/site/service/processing.py) with  *)
(*             its FixedDepthJobSource process, the SessionThread          *)
(*             heartbeat of that process, the worker processes and the     *)
(*             status updater (balsam/site/job_source.py).                 *)
(*             Jobs carry one state and user code raises nothing: what     *)
(*             is checked here is the order of events between processes.   *)
(*   SpecWorker one run_worker process fed by its two queues, with every   *)
(*             job state, application id and outcome of user code.         *)
(*   SpecSync  SynchronousJobSource with its SessionThread heartbeat.      *)
(*   SpecLive  Spec with the scheduling of its processes, on a site with   *)
(*             few runnable jobs.                                          *)
(*   SpecStart start() statement by statement, the started processes       *)
(*             running.                                                    *)
(*   SpecLease SpecSync from the construction of the SessionThread on.     *)
(*   SpecRanges get_node_ranges, one pass of its loop per step.            *)
(*   SpecWall  the remaining wall time the two job sources request, on a   *)
(*             clock of half minutes.                                      *)
(***************************************************************************)
EXTENDS Integers, Sequences, FiniteSets, TLC

\* ------------------------------------------------------------ bounds
\* Jobs the coordination service can hand out in one run.
MaxJobs == 3
\* Worker processes of the ProcessingService (num_workers).
NumWorkers == 2
\* prefetch_depth of the FixedDepthJobSource.
PrefetchDepth == 2
\* Jobs that reach the queue of the single worker process of SpecWorker.
MaxWorkerJobs == 2
\* Calls the owner of a SynchronousJobSource makes in one run.
MaxSyncOps == 3
\* Calls of ProcessingService.start() the owner makes in one run.
MaxStartCalls == 3
\* Largest num_nodes get_node_ranges is called with.
MaxNodes == 9
\* Largest prefetch factor get_node_ranges is called with.
MaxFactor == 2
\* Largest max_wall_time_min a job source is configured with, in minutes.
MaxWallTime == 3
\* Half minutes the clock runs after the job sources were constructed.
MaxClock == 8
\* Runnable jobs of the site in the runs whose scheduling is followed.
MaxLiveJobs == 1
\* Timers of a SessionThread that expire in one run.
MaxFires == 3

Workers == 1..NumWorkers

\* ------------------------------------------------------------ data
\* states={"STAGED_IN", "RUN_DONE", "RUN_ERROR", "RUN_TIMEOUT"}
TriggerStates == {"STAGED_IN", "RUN_DONE", "RUN_ERROR", "RUN_TIMEOUT"}

\* JobState.failed
FAILED == "FAILED"

\* States a transition function that returns normally may leave on the job.
AppResultStates == {"PREPROCESSED", "POSTPROCESSED", "RESTART_READY", FAILED}

\* app_cache: application ids resolved once, when the service is constructed.
AppCache == {1}

\* Application ids a job of the site can carry: an app registered after the
\* service was constructed is not in the cache.
AppIds == {1, 2}

\* str(exc) of an exception raised by user code; an exception may carry no text.
ExcTexts == {"", "boom"}

\* A Python value that is None or a dict: state_data.
NoneData == [none |-> TRUE, items |-> {}]

Dict(items) == [none |-> FALSE, items |-> items]

\* Python truthiness of an Optional[dict].
Truthy(d) == ~d.none /\ d.items # {}

\* A Python value that is None or an int: scheduler_id, batch_job_id.
NoneInt == [none |-> TRUE, val |-> 0]

SomeInt(v) == [none |-> FALSE, val |-> v]

\* scheduler_id values a launcher may pass.
SchedulerIds == {11, 12}

\* The BatchJob rows of the site: one scheduler id has a batch job, the other
\* has none.
BatchJobs == {[id |-> 5, scheduler_id |-> 11]}

\* No job held (the local `job` before the first successful get).
NoJob == [id |-> 0, state |-> "None", app_id |-> 0, state_data |-> NoneData]

\* No exception caught by transition() for the job in hand.
NoExc == "<none>"

\* No job in hand, no transition function called.
NoRun == [state |-> "None", funcs |-> <<>>]

VARIABLES
    \* ProcessingService
    svcPc,        \* position of the owner in start() / terminate() / join()
    svcIdx,       \* loop index over self.workers
    started,      \* self._started
    startCalls,   \* calls of start() begun
    startLog,     \* the components start() has started, in the order it did
    \* BulkStatusUpdater (interface only)
    updPc,        \* "init" | "started" | "terminated" | "joined"
    statusQueue,  \* status_updater.queue
    \* coordination service
    handedOut,    \* jobs 1..handedOut have been returned by acquire_jobs
    \* FixedDepthJobSource process
    srcPc,        \* position in _run
    srcExit,      \* EXIT_FLAG of _run
    srcQsize,     \* local qsize of the current cycle (-1: not assigned yet)
    srcFetch,     \* local fetch_count of the current cycle (-1: not assigned yet)
    cycleCalls,   \* acquire_jobs calls issued in the current cycle
    lastRequest,  \* max_num_jobs of the last acquire_jobs call
    queue,        \* job_source.queue
    \* SessionThread
    sessState,    \* "none" | "live" | "deleted"
    timer,        \* the Timer self.timer refers to: "none" | "pending" | "fired" | "cancelled"
    cbPc,         \* timer thread running _schedule_next_tick: "idle" | "rearm" | "tick"
    deleteCalls,  \* session.delete() calls issued
    lateTick,     \* a session.tick() was issued after session.delete() returned
    lastTick,     \* outcome of the last session.tick(): "none" | "ok" | "failed"
    schedId,      \* scheduler_id given to SessionThread
    sessBatchJob, \* batch_job_id the session was created with
    \* worker processes
    workerPc,     \* position in run_worker
    workerExit,   \* EXIT_FLAG of run_worker
    workerJob,    \* local job
    workerExc,    \* str(exc) caught by transition() for the job in hand
    workerRan,    \* the state the job in hand was dequeued in and the
                  \* transition functions called for it
    reported,     \* ids of the jobs a status record was enqueued for
    \* SynchronousJobSource and its owner
    syncPc,       \* "ready" | "term_delete" | "in_acquire", and while the
                  \* SessionThread is constructed "open" | "arm" |
                  \* "first_tick"; "init_raised": the constructor raised
    syncOps,      \* calls made so far
    syncLastOp,   \* the last call begun
    syncAcqCalls, \* acquire_jobs calls issued by the last get_jobs
    syncResponse, \* what the last acquire_jobs call returned
    syncReturned, \* what the last get_jobs returned to its caller
    syncHanded,   \* ids of all jobs handed to the caller
    \* get_node_ranges
    rngPc,        \* "off" | "loop" | "done"
    nodesArg,     \* num_nodes as passed by the caller
    prefetch_factor,
    single_node_prefetch_factor,
    num_nodes,    \* the parameter, which the loop reassigns
    num_acquire,
    result,
    \* remaining wall time of the two job sources, in half minutes
    wallClock,    \* time.time() - self.start_time
    wallConf,     \* self.max_wall_time_min, in minutes
    fixedReq,     \* max_wall_time_min of the last request of FixedDepthJobSource
    fixedAt,      \* the elapsed time it was computed at (-1: no request yet)
    syncReq,      \* max_wall_time_min of the last request of SynchronousJobSource
    syncAt,       \* the elapsed time it was computed at (-1: no request yet)
    \* heartbeat of a SessionThread, counted
    timerFires,   \* timers that have expired
    cbTicks,      \* session.tick() calls made by timer threads
    \* what the workers have done with each job, counted by job id
    dequeues,     \* times the job was got from the job queue
    transitions,  \* times transition(app) was called for the job
    records       \* status records enqueued for the job

svcVars == <<svcPc, svcIdx, started, startCalls, startLog>>
updVars == <<updPc, statusQueue>>
srcVars == <<srcPc, srcExit, srcQsize, srcFetch, cycleCalls, lastRequest>>
leaseVars == <<sessState, timer, cbPc, deleteCalls, lateTick, lastTick, schedId, sessBatchJob>>
onceVars == <<dequeues, transitions, records>>
wrkVars == <<workerPc, workerExit, workerJob, workerExc, workerRan, reported, onceVars>>
syncVars == <<syncPc, syncOps, syncLastOp, syncAcqCalls, syncResponse, syncReturned, syncHanded>>
rngVars == <<rngPc, nodesArg, prefetch_factor, single_node_prefetch_factor,
             num_nodes, num_acquire, result>>
wallVars == <<wallClock, wallConf, fixedReq, fixedAt, syncReq, syncAt>>
beatVars == <<timerFires, cbTicks>>
vars == <<svcVars, updVars, handedOut, srcVars, queue, leaseVars, wrkVars, syncVars,
          rngVars, wallVars, beatVars>>

\* ------------------------------------------------------------ pure parts
\* transition(): the dict lookup that selects the transition function.
TransitionFunc(state) ==
    CASE state = "STAGED_IN" -> "preprocess"
      [] state = "RUN_DONE" -> "postprocess"
      [] state = "RUN_ERROR" -> "handle_error"
      [] state = "RUN_TIMEOUT" -> "handle_timeout"

\* Mutant of FailedJob: the except branch records the exception and leaves
\* the job's state as it was.
FailedJobKeepsState(job, text) ==
    [job EXCEPT !.state_data = Dict({<<"message", TransitionFunc(job.state)>>,
                                     <<"exception", text>>})]

\* transition(): the except branch.
FailedJob(job, text) ==
    [job EXCEPT !.state = FAILED,
                !.state_data = Dict({<<"message", TransitionFunc(job.state)>>,
                                     <<"exception", text>>})]

\* transition(): run the selected function, once; user code either returns,
\* having left newState on the job, or raises an exception whose str() is
\* text. ran lists the functions called.
Transition(job, raised, newState, text) ==
    IF raised
    THEN [job |-> FailedJob(job, text), exc |-> text,
          ran |-> <<TransitionFunc(job.state)>>]
    ELSE [job |-> [job EXCEPT !.state = newState], exc |-> NoExc,
          ran |-> <<TransitionFunc(job.state)>>]

\* run_worker: state_data=job.state_data if job.state_data else {}
StatusData(d) == IF Truthy(d) THEN d ELSE Dict({})

\* run_worker: the dict put on the status queue.
StatusRecord(job) ==
    [id |-> job.id, state |-> job.state, state_data |-> StatusData(job.state_data)]

\* Mutant of FetchCount: the queue size is ignored.
FetchCountIgnoresQueue(depth, qsize) == depth

\* Mutant of FetchCount: one job more than the queue has room for.
FetchCountOneMore(depth, qsize) == depth - qsize + 1

\* _run: fetch_count = max(0, self.prefetch_depth - qsize)
FetchCount(depth, qsize) == IF depth - qsize > 0 THEN depth - qsize ELSE 0

\* Mutant of ProcessEnded: join() returns without waiting.
ProcessEndedNoWait(pc) == TRUE

\* Process.join() returns once the process has ended, normally or not.
ProcessEnded(pc) == pc \in {"exited", "crashed"}

\* A started process that has not ended receives signals.
ProcessAlive(pc) == pc \notin {"idle", "exited", "crashed"}

\* Counts by job id: no id counted yet, the count of an id, and one more for
\* an id.
NoCounts == [id \in {} |-> 0]

Count(f, id) == IF id \in DOMAIN f THEN f[id] ELSE 0

Bump(f, id) == [x \in DOMAIN f \cup {id} |-> Count(f, x) + (IF x = id THEN 1 ELSE 0)]

\* The jobs lo+1..lo+n as a list, in the order the service returned them.
JobList(lo, n) == [i \in 1..n |-> lo + i]

\* The ids in a list of jobs.
Range(seq) == {seq[i] : i \in 1..Len(seq)}

\* What a job can carry and what user code can do with it.
FullInputs ==
    [states |-> TriggerStates, raises |-> BOOLEAN,
     results |-> AppResultStates, texts |-> ExcTexts]

\* One job state, user code that returns: the inputs of Spec.
PlainInputs ==
    [states |-> {"STAGED_IN"}, raises |-> {FALSE},
     results |-> {"PREPROCESSED"}, texts |-> {""}]

\* ------------------------------------------------------------ SessionThread.__init__
\* Mutant of LookupBatchJob: DoesNotExist is not caught.
LookupBatchJobMissRaises(sid) ==
    IF sid.none
    THEN [raised |-> FALSE, batch_job_id |-> NoneInt]
    ELSE LET found == {b \in BatchJobs : b.scheduler_id = sid.val} IN
         IF found = {}
         THEN [raised |-> TRUE, batch_job_id |-> NoneInt]
         ELSE [raised |-> FALSE, batch_job_id |-> SomeInt((CHOOSE b \in found : TRUE).id)]

\* __init__: batch_job_id is None unless a scheduler id is given and
\* BatchJob.objects.get finds its batch job; DoesNotExist is caught.
LookupBatchJob(sid) ==
    IF sid.none
    THEN [raised |-> FALSE, batch_job_id |-> NoneInt]
    ELSE LET found == {b \in BatchJobs : b.scheduler_id = sid.val} IN
         IF found = {}
         THEN [raised |-> FALSE, batch_job_id |-> NoneInt]
         ELSE [raised |-> FALSE, batch_job_id |-> SomeInt((CHOOSE b \in found : TRUE).id)]

\* session.tick() returns or raises.
TickOutcome(ok) == IF ok THEN "ok" ELSE "failed"

\* ------------------------------------------------------------ FixedDepthJobSource
\* threading.Timer.cancel(): stops a timer that has not fired yet.
Cancelled(t) == IF t = "pending" THEN "cancelled" ELSE t

\* session.delete(): one delete_session request per call.
SessionDelete ==
    /\ sessState' = "deleted"
    /\ deleteCalls' = deleteCalls + 1

\* _run up to the loop: handlers are installed, the SessionThread is created
\* (session created, timer armed, first tick sent).
SrcInit ==
    /\ srcPc = "init"
    /\ srcPc' = "loop"
    /\ sessState' = "live"
    /\ sessBatchJob' = LookupBatchJob(schedId).batch_job_id
    /\ timer' = "pending"
    /\ lastTick' = "ok"
    /\ UNCHANGED <<cbPc, deleteCalls, lateTick, schedId>>
    /\ UNCHANGED <<srcExit, srcQsize, srcFetch, cycleCalls, lastRequest>>
    /\ UNCHANGED <<svcVars, updVars, handedOut, queue, wrkVars, syncVars>>
    /\ UNCHANGED <<rngVars, wallVars, beatVars>>

\* One pass of the loop body up to the acquisition call: sleep, read qsize,
\* compute fetch_count and, if it is not zero, issue acquire_jobs.
SrcCycle ==
    /\ srcPc = "loop"
    /\ ~srcExit
    /\ srcQsize' = Len(queue)
    /\ srcFetch' = FetchCount(PrefetchDepth, Len(queue))
    /\ IF srcFetch' # 0
       THEN /\ srcPc' = "acquiring"
            /\ cycleCalls' = 1
            /\ lastRequest' = srcFetch'
       ELSE /\ srcPc' = "loop"
            /\ cycleCalls' = 0
            /\ lastRequest' = 0
    /\ UNCHANGED <<srcExit, svcVars, updVars, handedOut, queue, leaseVars, wrkVars, syncVars>>
    /\ UNCHANGED <<rngVars, wallVars, beatVars>>

\* acquire_jobs returns n jobs, at most max_num_jobs of them and no more than
\* the site has left of its runnable jobs, and each is put on the queue.
SrcAcquireReturnOf(runnable) ==
    /\ srcPc = "acquiring"
    /\ \E n \in 0..lastRequest :
        /\ handedOut + n <= runnable
        /\ handedOut' = handedOut + n
        /\ queue' = queue \o JobList(handedOut, n)
    /\ srcPc' = "loop"
    /\ UNCHANGED <<srcExit, srcQsize, srcFetch, cycleCalls, lastRequest>>
    /\ UNCHANGED <<svcVars, updVars, leaseVars, wrkVars, syncVars>>
    /\ UNCHANGED <<rngVars, wallVars, beatVars>>

\* acquire_jobs returns, on a site with MaxJobs runnable jobs.
SrcAcquireReturn == SrcAcquireReturnOf(MaxJobs)

\* acquire_jobs raises (network failure): the exception leaves _run.
SrcAcquireRaise ==
    /\ srcPc = "acquiring"
    /\ srcPc' = "crashed"
    /\ UNCHANGED <<srcExit, srcQsize, srcFetch, cycleCalls, lastRequest>>
    /\ UNCHANGED <<svcVars, updVars, handedOut, queue, leaseVars, wrkVars, syncVars>>
    /\ UNCHANGED <<rngVars, wallVars, beatVars>>

\* while not EXIT_FLAG: the flag is set, the loop ends.
SrcLoopExit ==
    /\ srcPc = "loop"
    /\ srcExit
    /\ srcPc' = "cancel"
    /\ UNCHANGED <<srcExit, srcQsize, srcFetch, cycleCalls, lastRequest>>
    /\ UNCHANGED <<svcVars, updVars, handedOut, queue, leaseVars, wrkVars, syncVars>>
    /\ UNCHANGED <<rngVars, wallVars, beatVars>>

\* self.session_thread.timer.cancel()
SrcCancelTimer ==
    /\ srcPc = "cancel"
    /\ timer' = Cancelled(timer)
    /\ srcPc' = "delete"
    /\ UNCHANGED <<sessState, cbPc, deleteCalls, lateTick, lastTick, schedId, sessBatchJob>>
    /\ UNCHANGED <<srcExit, srcQsize, srcFetch, cycleCalls, lastRequest>>
    /\ UNCHANGED <<svcVars, updVars, handedOut, queue, wrkVars, syncVars>>
    /\ UNCHANGED <<rngVars, wallVars, beatVars>>

\* self.session.delete(), after which _run returns and the process ends.
SrcDeleteSession ==
    /\ srcPc = "delete"
    /\ SessionDelete
    /\ srcPc' = "exited"
    /\ UNCHANGED <<timer, cbPc, lateTick, lastTick, schedId, sessBatchJob>>
    /\ UNCHANGED <<srcExit, srcQsize, srcFetch, cycleCalls, lastRequest>>
    /\ UNCHANGED <<svcVars, updVars, handedOut, queue, wrkVars, syncVars>>
    /\ UNCHANGED <<rngVars, wallVars, beatVars>>

\* ------------------------------------------------------------ run_worker
\* Mutant of WorkerCheck: the loop test does not see EXIT_FLAG.
WorkerCheckIgnoresFlag(w) ==
    /\ workerPc[w] = "check"
    /\ workerPc' = [workerPc EXCEPT ![w] = "get"]
    /\ UNCHANGED <<workerExit, workerJob, workerExc, workerRan, reported, onceVars>>
    /\ UNCHANGED <<svcVars, updVars, handedOut, srcVars, queue, leaseVars, syncVars>>
    /\ UNCHANGED <<rngVars, wallVars, beatVars>>

\* while not EXIT_FLAG
WorkerCheck(w) ==
    /\ workerPc[w] = "check"
    /\ workerPc' = [workerPc EXCEPT ![w] = IF workerExit[w] THEN "exited" ELSE "get"]
    /\ UNCHANGED <<workerExit, workerJob, workerExc, workerRan, reported, onceVars>>
    /\ UNCHANGED <<svcVars, updVars, handedOut, srcVars, queue, leaseVars, syncVars>>
    /\ UNCHANGED <<rngVars, wallVars, beatVars>>

\* job = job_source_queue.get(timeout=1) returns the head of the queue.
WorkerGet(w) ==
    /\ workerPc[w] = "get"
    /\ queue # <<>>
    /\ workerJob' = [workerJob EXCEPT ![w] = [NoJob EXCEPT !.id = Head(queue)]]
    /\ queue' = Tail(queue)
    /\ workerPc' = [workerPc EXCEPT ![w] = "busy"]
    /\ dequeues' = Bump(dequeues, Head(queue))
    /\ UNCHANGED <<workerExit, workerExc, workerRan, reported, transitions, records>>
    /\ UNCHANGED <<svcVars, updVars, handedOut, srcVars, leaseVars, syncVars>>
    /\ UNCHANGED <<rngVars, wallVars, beatVars>>

\* except queue.Empty: continue
WorkerEmpty(w) ==
    /\ workerPc[w] = "get"
    /\ queue = <<>>
    /\ workerPc' = [workerPc EXCEPT ![w] = "check"]
    /\ UNCHANGED <<workerExit, workerJob, workerExc, workerRan, reported, onceVars>>
    /\ UNCHANGED <<svcVars, updVars, handedOut, srcVars, queue, leaseVars, syncVars>>
    /\ UNCHANGED <<rngVars, wallVars, beatVars>>

\* app_cache[job.app_id], app_cls(job), job_context(...) and transition(app),
\* for a job that carries state st and application id app. The lookup raises
\* KeyError for an id that is not cached, the constructor and the entry into
\* the working directory may raise, and none of these is caught: the process
\* ends with the job in hand.
WorkerRun(w, inp) ==
    /\ workerPc[w] = "busy"
    /\ \E st \in inp.states, app \in AppIds, ctorOk \in BOOLEAN, ctxOk \in BOOLEAN,
          raised \in inp.raises, newState \in inp.results, text \in inp.texts :
        IF app \notin AppCache \/ ~ctorOk \/ ~ctxOk
        THEN /\ workerPc' = [workerPc EXCEPT ![w] = "crashed"]
             /\ workerJob' = [workerJob EXCEPT ![w] = NoJob]
             /\ workerRan' = [workerRan EXCEPT ![w] = [state |-> st, funcs |-> <<>>]]
             /\ UNCHANGED <<workerExc, transitions>>
        ELSE LET job == [workerJob[w] EXCEPT !.state = st, !.app_id = app]
                 r == Transition(job, raised, newState, text)
             IN /\ workerPc' = [workerPc EXCEPT ![w] = "ran"]
                /\ workerJob' = [workerJob EXCEPT ![w] = r.job]
                /\ workerExc' = [workerExc EXCEPT ![w] = r.exc]
                /\ workerRan' = [workerRan EXCEPT ![w] = [state |-> st, funcs |-> r.ran]]
                /\ transitions' = Bump(transitions, job.id)
    /\ UNCHANGED <<workerExit, reported, dequeues, records>>
    /\ UNCHANGED <<svcVars, updVars, handedOut, srcVars, queue, leaseVars, syncVars>>
    /\ UNCHANGED <<rngVars, wallVars, beatVars>>

\* Mutant of WorkerPut: the worker keeps the job it has reported and goes
\* on to process it again instead of getting the next one.
WorkerPutKeepsJob(w) ==
    /\ workerPc[w] = "ran"
    /\ statusQueue' = Append(statusQueue, StatusRecord(workerJob[w]))
    /\ reported' = reported \cup {workerJob[w].id}
    /\ records' = Bump(records, workerJob[w].id)
    /\ workerPc' = [workerPc EXCEPT ![w] = "busy"]
    /\ UNCHANGED <<workerJob, workerExc, workerRan>>
    /\ UNCHANGED <<workerExit, updPc, dequeues, transitions>>
    /\ UNCHANGED <<svcVars, handedOut, srcVars, queue, leaseVars, syncVars>>
    /\ UNCHANGED <<rngVars, wallVars, beatVars>>

\* status_queue.put(dict(...)), then back to the top of the loop.
WorkerPut(w) ==
    /\ workerPc[w] = "ran"
    /\ statusQueue' = Append(statusQueue, StatusRecord(workerJob[w]))
    /\ reported' = reported \cup {workerJob[w].id}
    /\ records' = Bump(records, workerJob[w].id)
    /\ workerPc' = [workerPc EXCEPT ![w] = "check"]
    /\ workerJob' = [workerJob EXCEPT ![w] = NoJob]
    /\ workerExc' = [workerExc EXCEPT ![w] = NoExc]
    /\ workerRan' = [workerRan EXCEPT ![w] = NoRun]
    /\ UNCHANGED <<workerExit, updPc, dequeues, transitions>>
    /\ UNCHANGED <<svcVars, handedOut, srcVars, queue, leaseVars, syncVars>>
    /\ UNCHANGED <<rngVars, wallVars, beatVars>>

\* ------------------------------------------------------------ BulkStatusUpdater
\* The updater takes the records off its queue for a bulk update.
UpdDrain ==
    /\ updPc \in {"started", "terminated"}
    /\ statusQueue # <<>>
    /\ statusQueue' = <<>>
    /\ UNCHANGED <<updPc, svcVars, handedOut, srcVars, queue, leaseVars, wrkVars, syncVars>>
    /\ UNCHANGED <<rngVars, wallVars, beatVars>>

\* ------------------------------------------------------------ ProcessingService
\* A component start() starts: the status updater, the job source, or the
\* worker at position idx of self.workers.
Component(kind, idx) == [kind |-> kind, idx |-> idx]

\* The body of start() in program order: the updater, the job source, then
\* self.workers from first to last.
StartOrder ==
    <<Component("status_updater", 0), Component("job_source", 0)>>
        \o [i \in 1..NumWorkers |-> Component("worker", i)]

\* start() as one step: the updater, the job source and every worker are
\* started.
SvcStart ==
    /\ svcPc = "idle"
    /\ ~started
    /\ updPc' = "started"
    /\ srcPc' = "init"
    /\ workerPc' = [w \in Workers |-> "check"]
    /\ started' = TRUE
    /\ startCalls' = startCalls + 1
    /\ startLog' = startLog \o StartOrder
    /\ svcPc' = "running"
    /\ UNCHANGED <<svcIdx, statusQueue, handedOut, queue, leaseVars, syncVars>>
    /\ UNCHANGED <<srcExit, srcQsize, srcFetch, cycleCalls, lastRequest>>
    /\ UNCHANGED <<workerExit, workerJob, workerExc, workerRan, reported, onceVars>>
    /\ UNCHANGED <<rngVars, wallVars, beatVars>>

\* terminate(): SIGTERM to the job source process and to every worker; the
\* handlers set EXIT_FLAG in each process that is running.
SvcTerminate ==
    /\ svcPc = "running"
    /\ srcExit' = (srcExit \/ ProcessAlive(srcPc))
    /\ workerExit' = [w \in Workers |-> workerExit[w] \/ ProcessAlive(workerPc[w])]
    /\ svcPc' = "join_workers"
    /\ svcIdx' = 1
    /\ UNCHANGED <<started, startCalls, startLog>>
    /\ UNCHANGED <<srcPc, srcQsize, srcFetch, cycleCalls, lastRequest>>
    /\ UNCHANGED <<workerPc, workerJob, workerExc, workerRan, reported, onceVars>>
    /\ UNCHANGED <<updVars, handedOut, queue, leaseVars, syncVars>>
    /\ UNCHANGED <<rngVars, wallVars, beatVars>>

\* join(): for worker in self.workers: worker.join()
SvcJoinWorker ==
    /\ svcPc = "join_workers"
    /\ ProcessEnded(workerPc[svcIdx])
    /\ IF svcIdx = NumWorkers
       THEN svcPc' = "term_updater" /\ svcIdx' = 0
       ELSE svcIdx' = svcIdx + 1 /\ UNCHANGED svcPc
    /\ UNCHANGED <<started, startCalls, startLog>>
    /\ UNCHANGED <<updVars, handedOut, srcVars, queue, leaseVars, wrkVars, syncVars>>
    /\ UNCHANGED <<rngVars, wallVars, beatVars>>

\* join(): self.status_updater.terminate()
SvcTerminateUpdater ==
    /\ svcPc = "term_updater"
    /\ updPc' = "terminated"
    /\ svcPc' = "join_source"
    /\ UNCHANGED <<svcIdx, started, startCalls, startLog, statusQueue>>
    /\ UNCHANGED <<handedOut, srcVars, queue, leaseVars, wrkVars, syncVars>>
    /\ UNCHANGED <<rngVars, wallVars, beatVars>>

\* join(): self.job_source.join()
SvcJoinSource ==
    /\ svcPc = "join_source"
    /\ ProcessEnded(srcPc)
    /\ svcPc' = "join_updater"
    /\ UNCHANGED <<svcIdx, started, startCalls, startLog>>
    /\ UNCHANGED <<updVars, handedOut, srcVars, queue, leaseVars, wrkVars, syncVars>>
    /\ UNCHANGED <<rngVars, wallVars, beatVars>>

\* join(): self.status_updater.join(); the updater ends once it has flushed
\* the records left on its queue.
SvcJoinUpdater ==
    /\ svcPc = "join_updater"
    /\ statusQueue = <<>>
    /\ updPc' = "joined"
    /\ svcPc' = "done"
    /\ UNCHANGED <<svcIdx, started, startCalls, startLog, statusQueue>>
    /\ UNCHANGED <<handedOut, srcVars, queue, leaseVars, wrkVars, syncVars>>
    /\ UNCHANGED <<rngVars, wallVars, beatVars>>

\* ------------------------------------------------------------ specification
\* get_node_ranges is not being called.
RangesIdle ==
    /\ rngPc = "off"
    /\ nodesArg = 0 /\ prefetch_factor = 0 /\ single_node_prefetch_factor = 0
    /\ num_nodes = 0 /\ num_acquire = 0 /\ result = <<>>

\* Queues empty, no job handed out, no process holding anything.
InitQueues ==
    /\ svcIdx = 0
    /\ startCalls = 0 /\ startLog = <<>>
    /\ statusQueue = <<>>
    /\ handedOut = 0
    /\ srcPc = "idle" /\ srcExit = FALSE /\ srcQsize = -1 /\ srcFetch = -1
    /\ cycleCalls = 0 /\ lastRequest = 0
    /\ queue = <<>>
    /\ cbPc = "idle" /\ deleteCalls = 0 /\ lateTick = FALSE
    /\ timerFires = 0 /\ cbTicks = 0
    /\ sessBatchJob = NoneInt
    /\ workerExit = [w \in Workers |-> FALSE]
    /\ workerJob = [w \in Workers |-> NoJob]
    /\ workerExc = [w \in Workers |-> NoExc]
    /\ workerRan = [w \in Workers |-> NoRun]
    /\ reported = {}
    /\ dequeues = NoCounts /\ transitions = NoCounts /\ records = NoCounts
    /\ syncOps = 0 /\ syncLastOp = "none" /\ syncAcqCalls = 0
    /\ syncResponse = <<>> /\ syncReturned = <<>> /\ syncHanded = {}

\* No wall-time ceiling, no request made.
WallIdle ==
    /\ wallClock = 0 /\ wallConf = NoneInt
    /\ fixedReq = NoneInt /\ fixedAt = -1
    /\ syncReq = NoneInt /\ syncAt = -1

\* What is the same in every initial state of the pipeline.
InitCommon == InitQueues /\ RangesIdle /\ WallIdle

\* After ProcessingService.__init__: nothing started, both queues empty.
Init ==
    /\ InitCommon
    /\ svcPc = "idle" /\ started = FALSE
    /\ updPc = "init"
    /\ sessState = "none" /\ timer = "none" /\ lastTick = "none"
    /\ schedId = NoneInt
    /\ workerPc = [w \in Workers |-> "idle"]
    /\ syncPc = "off"

Next ==
    \/ SvcStart \/ SvcTerminate
    \/ SvcJoinWorker \/ SvcTerminateUpdater \/ SvcJoinSource \/ SvcJoinUpdater
    \/ SrcInit \/ SrcCycle \/ SrcAcquireReturn \/ SrcAcquireRaise
    \/ SrcLoopExit \/ SrcCancelTimer \/ SrcDeleteSession
    \/ UpdDrain
    \/ \E w \in Workers :
        \/ WorkerCheck(w) \/ WorkerGet(w) \/ WorkerEmpty(w)
        \/ WorkerRun(w, PlainInputs) \/ WorkerPut(w)

Spec == Init /\ [][Next]_vars

\* ------------------------------------------------------------ scheduling
\* The steps of worker process w.
WorkerStep(w) ==
    \/ WorkerCheck(w) \/ WorkerGet(w) \/ WorkerEmpty(w)
    \/ WorkerRun(w, PlainInputs) \/ WorkerPut(w)

\* The steps of the job source process, on a site with MaxLiveJobs runnable
\* jobs.
SrcStep ==
    \/ SrcInit \/ SrcCycle \/ SrcAcquireReturnOf(MaxLiveJobs) \/ SrcAcquireRaise
    \/ SrcLoopExit \/ SrcCancelTimer \/ SrcDeleteSession

\* The steps of join(), which the owner calls after terminate().
JoinStep ==
    \/ SvcJoinWorker \/ SvcTerminateUpdater \/ SvcJoinSource \/ SvcJoinUpdater

\* Every process that can take a step is scheduled in the end: a worker's
\* get returns a job or times out and user code returns, an acquisition call
\* returns or raises, the updater takes what is on its queue, a join() whose
\* process has ended returns. Whether and when the owner calls start() and
\* terminate() is left open.
Fairness ==
    /\ \A w \in Workers : WF_vars(WorkerStep(w))
    /\ WF_vars(SrcStep)
    /\ WF_vars(UpdDrain)
    /\ WF_vars(JoinStep)

NextLive ==
    \/ SvcStart \/ SvcTerminate
    \/ JoinStep
    \/ SrcStep
    \/ UpdDrain
    \/ \E w \in Workers : WorkerStep(w)

SpecLive == Init /\ [][NextLive]_vars /\ Fairness

\* ------------------------------------------------------------ start(), statement by statement
\* Mutant of StartNeeded: start() does not look at self._started.
StartNeededAlways(flag) == TRUE

\* start(): if not self._started
StartNeeded(flag) == ~flag

\* The owner calls start(), before or after an earlier call returned, and the
\* test of self._started is made: the body is entered or the call returns.
StartEnter ==
    /\ svcPc \in {"idle", "running"}
    /\ startCalls < MaxStartCalls
    /\ startCalls' = startCalls + 1
    /\ svcPc' = IF StartNeeded(started) THEN "start_updater" ELSE svcPc
    /\ UNCHANGED <<svcIdx, started, startLog>>
    /\ UNCHANGED <<updVars, handedOut, srcVars, queue, leaseVars, wrkVars, syncVars>>
    /\ UNCHANGED <<rngVars, wallVars, beatVars>>

\* start(): self.status_updater.start()
StartUpdater ==
    /\ svcPc = "start_updater"
    /\ updPc' = "started"
    /\ startLog' = Append(startLog, Component("status_updater", 0))
    /\ svcPc' = "start_source"
    /\ UNCHANGED <<svcIdx, started, startCalls, statusQueue>>
    /\ UNCHANGED <<handedOut, srcVars, queue, leaseVars, wrkVars, syncVars>>
    /\ UNCHANGED <<rngVars, wallVars, beatVars>>

\* start(): self.job_source.start()
StartSource ==
    /\ svcPc = "start_source"
    /\ srcPc' = "init"
    /\ startLog' = Append(startLog, Component("job_source", 0))
    /\ svcPc' = "start_workers"
    /\ svcIdx' = 1
    /\ UNCHANGED <<started, startCalls>>
    /\ UNCHANGED <<srcExit, srcQsize, srcFetch, cycleCalls, lastRequest>>
    /\ UNCHANGED <<updVars, handedOut, queue, leaseVars, wrkVars, syncVars>>
    /\ UNCHANGED <<rngVars, wallVars, beatVars>>

\* start(): for worker in self.workers: worker.start()
StartWorker ==
    /\ svcPc = "start_workers"
    /\ workerPc' = [workerPc EXCEPT ![svcIdx] = "check"]
    /\ startLog' = Append(startLog, Component("worker", svcIdx))
    /\ IF svcIdx = NumWorkers
       THEN svcPc' = "start_flag" /\ svcIdx' = 0
       ELSE svcIdx' = svcIdx + 1 /\ UNCHANGED svcPc
    /\ UNCHANGED <<started, startCalls>>
    /\ UNCHANGED <<workerExit, workerJob, workerExc, workerRan, reported, onceVars>>
    /\ UNCHANGED <<updVars, handedOut, srcVars, queue, leaseVars, syncVars>>
    /\ UNCHANGED <<rngVars, wallVars, beatVars>>

\* start(): self._started = True, and start() returns.
StartFlag ==
    /\ svcPc = "start_flag"
    /\ started' = TRUE
    /\ svcPc' = "running"
    /\ UNCHANGED <<svcIdx, startCalls, startLog>>
    /\ UNCHANGED <<updVars, handedOut, srcVars, queue, leaseVars, wrkVars, syncVars>>
    /\ UNCHANGED <<rngVars, wallVars, beatVars>>

NextStart ==
    \/ StartEnter \/ StartUpdater \/ StartSource \/ StartWorker \/ StartFlag
    \/ SrcInit \/ SrcCycle \/ SrcAcquireReturn \/ SrcAcquireRaise
    \/ UpdDrain
    \/ \E w \in Workers :
        \/ WorkerCheck(w) \/ WorkerGet(w) \/ WorkerEmpty(w)
        \/ WorkerRun(w, PlainInputs) \/ WorkerPut(w)

SpecStart == Init /\ [][NextStart]_vars

\* ------------------------------------------------------------ one worker process
\* The worker process SpecWorker follows.
TheWorker == CHOOSE w \in Workers : \A v \in Workers : w <= v

\* for job in jobs: self.queue.put_nowait(job), seen from the worker: a job
\* arrives on its input queue.
EnvPutJob ==
    /\ handedOut < MaxWorkerJobs
    /\ handedOut' = handedOut + 1
    /\ queue' = Append(queue, handedOut + 1)
    /\ UNCHANGED <<svcVars, updVars, srcVars, leaseVars, wrkVars, syncVars>>
    /\ UNCHANGED <<rngVars, wallVars, beatVars>>

\* sig_handler: SIGINT or SIGTERM reaches the worker process.
EnvSignal ==
    /\ ProcessAlive(workerPc[TheWorker])
    /\ ~workerExit[TheWorker]
    /\ workerExit' = [workerExit EXCEPT ![TheWorker] = TRUE]
    /\ UNCHANGED <<workerPc, workerJob, workerExc, workerRan, reported, onceVars>>
    /\ UNCHANGED <<svcVars, updVars, handedOut, srcVars, queue, leaseVars, syncVars>>
    /\ UNCHANGED <<rngVars, wallVars, beatVars>>

\* run_worker has installed its handlers; the updater is running.
InitWorker ==
    /\ InitCommon
    /\ svcPc = "off" /\ started = TRUE
    /\ updPc = "started"
    /\ sessState = "none" /\ timer = "none" /\ lastTick = "none"
    /\ schedId = NoneInt
    /\ workerPc = [w \in Workers |-> IF w = TheWorker THEN "check" ELSE "idle"]
    /\ syncPc = "off"

NextWorker ==
    \/ EnvPutJob \/ EnvSignal \/ UpdDrain
    \/ WorkerCheck(TheWorker) \/ WorkerGet(TheWorker) \/ WorkerEmpty(TheWorker)
    \/ WorkerRun(TheWorker, FullInputs) \/ WorkerPut(TheWorker)

SpecWorker == InitWorker /\ [][NextWorker]_vars

\* ------------------------------------------------------------ SessionThread
\* The process that owns the SessionThread runs, so its timer threads do.
HeartbeatAlive == sessState # "none" /\ syncPc # "off"

\* The pending Timer expires and its thread calls _schedule_next_tick.
TimerFire ==
    /\ HeartbeatAlive
    /\ timer = "pending"
    /\ cbPc = "idle"
    /\ timerFires < MaxFires
    /\ timer' = "fired"
    /\ cbPc' = "rearm"
    /\ timerFires' = timerFires + 1
    /\ UNCHANGED cbTicks
    /\ UNCHANGED <<sessState, deleteCalls, lateTick, lastTick, schedId, sessBatchJob>>
    /\ UNCHANGED <<svcVars, updVars, handedOut, srcVars, queue, wrkVars, syncVars>>
    /\ UNCHANGED <<rngVars, wallVars>>

\* Mutant of CbRearm: the callback goes on to its tick without arming a new
\* timer.
CbRearmSkipsTimer ==
    /\ HeartbeatAlive
    /\ cbPc = "rearm"
    /\ cbPc' = "tick"
    /\ UNCHANGED <<sessState, timer, deleteCalls, lateTick, lastTick, schedId, sessBatchJob>>
    /\ UNCHANGED <<svcVars, updVars, handedOut, srcVars, queue, wrkVars, syncVars>>
    /\ UNCHANGED <<rngVars, wallVars, beatVars>>

\* _schedule_next_tick: self.timer = Timer(...); self.timer.start()
CbRearm ==
    /\ HeartbeatAlive
    /\ cbPc = "rearm"
    /\ timer' = "pending"
    /\ cbPc' = "tick"
    /\ UNCHANGED <<sessState, deleteCalls, lateTick, lastTick, schedId, sessBatchJob>>
    /\ UNCHANGED <<svcVars, updVars, handedOut, srcVars, queue, wrkVars, syncVars>>
    /\ UNCHANGED <<rngVars, wallVars, beatVars>>

\* _schedule_next_tick: self._do_tick(), that is session.tick(), in the timer
\* thread, which ends with it: a tick that raises ends the thread the same.
CbTick ==
    /\ HeartbeatAlive
    /\ cbPc = "tick"
    /\ lateTick' = (lateTick \/ sessState = "deleted")
    /\ \E ok \in BOOLEAN : lastTick' = TickOutcome(ok)
    /\ cbPc' = "idle"
    /\ cbTicks' = cbTicks + 1
    /\ UNCHANGED timerFires
    /\ UNCHANGED <<sessState, timer, deleteCalls, schedId, sessBatchJob>>
    /\ UNCHANGED <<svcVars, updVars, handedOut, srcVars, queue, wrkVars, syncVars>>
    /\ UNCHANGED <<rngVars, wallVars>>

\* ------------------------------------------------------------ SynchronousJobSource
\* The owner begins a call: one more call made, op the call.
SyncCall(op) ==
    /\ syncPc = "ready"
    /\ syncOps < MaxSyncOps
    /\ syncOps' = syncOps + 1
    /\ syncLastOp' = op

\* start(): pass
SyncStart ==
    /\ SyncCall("start")
    /\ UNCHANGED <<syncPc, syncAcqCalls, syncResponse, syncReturned, syncHanded>>
    /\ UNCHANGED <<svcVars, updVars, handedOut, srcVars, queue, leaseVars, wrkVars>>
    /\ UNCHANGED <<rngVars, wallVars, beatVars>>

\* join(): pass
SyncJoin ==
    /\ SyncCall("join")
    /\ UNCHANGED <<syncPc, syncAcqCalls, syncResponse, syncReturned, syncHanded>>
    /\ UNCHANGED <<svcVars, updVars, handedOut, srcVars, queue, leaseVars, wrkVars>>
    /\ UNCHANGED <<rngVars, wallVars, beatVars>>

\* Mutant of SyncReturnValue: get_jobs keeps the first acquired job back.
SyncReturnValueKeepsOne(jobs) == IF jobs = <<>> THEN jobs ELSE Tail(jobs)

\* get_jobs: return jobs
SyncReturnValue(jobs) == jobs

\* get_jobs(max_num_jobs) up to its acquisition call: the request is issued
\* on self.session, deleted or not.
SyncGetJobs ==
    /\ SyncCall("get_jobs")
    /\ \E k \in 1..MaxJobs : lastRequest' = k
    /\ syncAcqCalls' = syncAcqCalls + 1
    /\ syncPc' = "in_acquire"
    /\ syncResponse' = <<>>
    /\ syncReturned' = <<>>
    /\ UNCHANGED <<syncHanded, srcPc, srcExit, srcQsize, srcFetch, cycleCalls>>
    /\ UNCHANGED <<svcVars, updVars, handedOut, queue, leaseVars, wrkVars>>
    /\ UNCHANGED <<rngVars, wallVars, beatVars>>

\* acquire_jobs returns n jobs, at most max_num_jobs of them, and get_jobs
\* returns them.
SyncAcquireReturn ==
    /\ syncPc = "in_acquire"
    /\ \E n \in 0..lastRequest :
        /\ handedOut + n <= MaxJobs
        /\ handedOut' = handedOut + n
        /\ syncResponse' = JobList(handedOut, n)
    /\ syncReturned' = SyncReturnValue(syncResponse')
    /\ syncHanded' = syncHanded \cup Range(syncReturned')
    /\ syncPc' = "ready"
    /\ UNCHANGED <<syncOps, syncLastOp, syncAcqCalls>>
    /\ UNCHANGED <<svcVars, updVars, srcVars, queue, leaseVars, wrkVars>>
    /\ UNCHANGED <<rngVars, wallVars, beatVars>>

\* acquire_jobs raises, and so does get_jobs.
SyncAcquireRaise ==
    /\ syncPc = "in_acquire"
    /\ syncPc' = "ready"
    /\ syncLastOp' = "get_jobs_raised"
    /\ UNCHANGED <<syncOps, syncAcqCalls, syncResponse, syncReturned, syncHanded>>
    /\ UNCHANGED <<svcVars, updVars, handedOut, srcVars, queue, leaseVars, wrkVars>>
    /\ UNCHANGED <<rngVars, wallVars, beatVars>>

\* terminate(): self.session_thread.timer.cancel()
SyncTerminateCancel ==
    /\ SyncCall("terminate")
    /\ timer' = Cancelled(timer)
    /\ syncPc' = "term_delete"
    /\ UNCHANGED <<sessState, cbPc, deleteCalls, lateTick, lastTick, schedId, sessBatchJob>>
    /\ UNCHANGED <<syncAcqCalls, syncResponse, syncReturned, syncHanded>>
    /\ UNCHANGED <<svcVars, updVars, handedOut, srcVars, queue, wrkVars>>
    /\ UNCHANGED <<rngVars, wallVars, beatVars>>

\* terminate(): self.session.delete(), and terminate returns.
SyncTerminateDelete ==
    /\ syncPc = "term_delete"
    /\ SessionDelete
    /\ syncPc' = "ready"
    /\ UNCHANGED <<timer, cbPc, lateTick, lastTick, schedId, sessBatchJob>>
    /\ UNCHANGED <<syncOps, syncLastOp, syncAcqCalls, syncResponse, syncReturned, syncHanded>>
    /\ UNCHANGED <<svcVars, updVars, handedOut, srcVars, queue, wrkVars>>
    /\ UNCHANGED <<rngVars, wallVars, beatVars>>

\* After SynchronousJobSource.__init__: the session exists, the timer is
\* armed and the first tick has been sent.
InitSync ==
    /\ InitCommon
    /\ svcPc = "off" /\ started = FALSE
    /\ updPc = "init"
    /\ sessState = "live" /\ timer = "pending" /\ lastTick = "ok"
    /\ schedId = NoneInt
    /\ workerPc = [w \in Workers |-> "idle"]
    /\ syncPc = "ready"

NextSync ==
    \/ SyncStart \/ SyncJoin
    \/ SyncGetJobs \/ SyncAcquireReturn \/ SyncAcquireRaise
    \/ SyncTerminateCancel \/ SyncTerminateDelete
    \/ TimerFire \/ CbRearm \/ CbTick

SpecSync == InitSync /\ [][NextSync]_vars

\* ------------------------------------------------------------ opening the lease
\* SessionThread.__init__ up to Session.objects.create: the batch job is
\* looked up and the session is created with what the lookup left in
\* batch_job_id; an exception the lookup lets through leaves the constructor.
LeaseCreate ==
    /\ syncPc = "open"
    /\ LET r == LookupBatchJob(schedId) IN
        IF r.raised
        THEN /\ syncPc' = "init_raised"
             /\ UNCHANGED <<sessState, sessBatchJob>>
        ELSE /\ syncPc' = "arm"
             /\ sessState' = "live"
             /\ sessBatchJob' = r.batch_job_id
    /\ UNCHANGED <<timer, cbPc, deleteCalls, lateTick, lastTick, schedId>>
    /\ UNCHANGED <<syncOps, syncLastOp, syncAcqCalls, syncResponse, syncReturned, syncHanded>>
    /\ UNCHANGED <<svcVars, updVars, handedOut, srcVars, queue, wrkVars>>
    /\ UNCHANGED <<rngVars, wallVars, beatVars>>

\* The first _schedule_next_tick, called by __init__: the timer is created
\* and started.
LeaseArm ==
    /\ syncPc = "arm"
    /\ timer' = "pending"
    /\ syncPc' = "first_tick"
    /\ UNCHANGED <<sessState, cbPc, deleteCalls, lateTick, lastTick, schedId, sessBatchJob>>
    /\ UNCHANGED <<syncOps, syncLastOp, syncAcqCalls, syncResponse, syncReturned, syncHanded>>
    /\ UNCHANGED <<svcVars, updVars, handedOut, srcVars, queue, wrkVars>>
    /\ UNCHANGED <<rngVars, wallVars, beatVars>>

\* The first _schedule_next_tick: self._do_tick() in the thread of the
\* caller; a tick that raises leaves _schedule_next_tick, __init__ and the
\* constructor of the job source.
LeaseFirstTick ==
    /\ syncPc = "first_tick"
    /\ \E ok \in BOOLEAN :
        /\ lastTick' = TickOutcome(ok)
        /\ syncPc' = IF ok THEN "ready" ELSE "init_raised"
    /\ lateTick' = (lateTick \/ sessState = "deleted")
    /\ UNCHANGED <<sessState, timer, cbPc, deleteCalls, schedId, sessBatchJob>>
    /\ UNCHANGED <<syncOps, syncLastOp, syncAcqCalls, syncResponse, syncReturned, syncHanded>>
    /\ UNCHANGED <<svcVars, updVars, handedOut, srcVars, queue, wrkVars>>
    /\ UNCHANGED <<rngVars, wallVars, beatVars>>

\* SynchronousJobSource.__init__ has reached the construction of its
\* SessionThread, with no scheduler id or one of those a launcher may pass.
InitLease ==
    /\ InitCommon
    /\ svcPc = "off" /\ started = FALSE
    /\ updPc = "init"
    /\ sessState = "none" /\ timer = "none" /\ lastTick = "none"
    /\ schedId \in {NoneInt} \cup {SomeInt(sid) : sid \in SchedulerIds}
    /\ workerPc = [w \in Workers |-> "idle"]
    /\ syncPc = "open"

NextLease ==
    \/ LeaseCreate \/ LeaseArm \/ LeaseFirstTick
    \/ NextSync

SpecLease == InitLease /\ [][NextLease]_vars

\* ------------------------------------------------------------ get_node_ranges
\* Python's min on two ints.
Min(a, b) == IF a <= b THEN a ELSE b

\* Mutant of Lower: the upper half is taken from the rounded-up middle.
LowerFromCeil(n) == Min(n, (n + 1) \div 2 + 1)

\* lower = min(num_nodes, num_nodes // 2 + 1)
Lower(n) == Min(n, n \div 2 + 1)

\* Mutant of BucketCount: the single-node bucket takes the running multiplier.
BucketCountRunning(n, acquire, single) == acquire

\* The third field of the tuple appended for num_nodes = n.
BucketCount(n, acquire, single) == IF n > 1 THEN acquire ELSE single

\* Mutant of NextNodes: the lower bound of a bucket is left to the next one.
NextNodesKeepsLower(lower) == lower

\* num_nodes = lower - 1
NextNodes(lower) == lower - 1

\* One pass of `while num_nodes`: a tuple is appended, num_acquire doubled
\* and num_nodes moved below the bucket.
RangesIter ==
    /\ rngPc = "loop"
    /\ num_nodes # 0
    /\ LET lower == Lower(num_nodes) IN
        /\ result' = Append(result,
                [lower |-> lower, upper |-> num_nodes,
                 count |-> BucketCount(num_nodes, num_acquire,
                                       single_node_prefetch_factor)])
        /\ num_nodes' = NextNodes(lower)
    /\ num_acquire' = num_acquire * 2
    /\ UNCHANGED <<rngPc, nodesArg, prefetch_factor, single_node_prefetch_factor>>
    /\ UNCHANGED <<svcVars, updVars, handedOut, srcVars, queue, leaseVars, wrkVars, syncVars>>
    /\ UNCHANGED <<wallVars, beatVars>>

\* num_nodes is 0: the loop ends, return result.
RangesReturn ==
    /\ rngPc = "loop"
    /\ num_nodes = 0
    /\ rngPc' = "done"
    /\ UNCHANGED <<nodesArg, prefetch_factor, single_node_prefetch_factor,
                   num_nodes, num_acquire, result>>
    /\ UNCHANGED <<svcVars, updVars, handedOut, srcVars, queue, leaseVars, wrkVars, syncVars>>
    /\ UNCHANGED <<wallVars, beatVars>>

\* get_node_ranges has been called: result = [], num_acquire = prefetch_factor.
InitRanges ==
    /\ InitQueues
    /\ svcPc = "off" /\ started = FALSE
    /\ updPc = "init"
    /\ sessState = "none" /\ timer = "none" /\ lastTick = "none"
    /\ schedId = NoneInt
    /\ workerPc = [w \in Workers |-> "idle"]
    /\ syncPc = "off"
    /\ WallIdle
    /\ rngPc = "loop"
    /\ nodesArg \in 0..MaxNodes
    /\ prefetch_factor \in 0..MaxFactor
    /\ single_node_prefetch_factor \in 0..MaxFactor
    /\ num_nodes = nodesArg
    /\ num_acquire = prefetch_factor
    /\ result = <<>>

NextRanges == RangesIter \/ RangesReturn

SpecRanges == InitRanges /\ [][NextRanges]_vars

\* ------------------------------------------------------------ remaining wall time
\* Python truthiness of an Optional[int]: None and 0 are false.
IntTruthy(x) == ~x.none /\ x.val # 0

\* Python's round() of h half minutes to whole minutes: a half goes to the
\* even neighbour.
RoundHalfEven(h) ==
    IF h % 2 = 0
    THEN h \div 2
    ELSE LET below == (h - 1) \div 2 IN
         IF below % 2 = 0 THEN below ELSE below + 1

\* _get_acquire_parameters: request_time = self.max_wall_time_min -
\* elapsed_min, a float, here in half minutes; None without a ceiling.
FixedRequestTime(conf, elapsed) ==
    IF IntTruthy(conf) THEN SomeInt(2 * conf.val - elapsed) ELSE NoneInt

\* SynchronousJobSource.get_jobs: request_time = round(self.max_wall_time_min
\* - elapsed_min), an int, here in half minutes; None without a ceiling.
SyncRequestTime(conf, elapsed) ==
    IF IntTruthy(conf)
    THEN SomeInt(2 * RoundHalfEven(2 * conf.val - elapsed))
    ELSE NoneInt

\* Half a minute passes.
WallTick ==
    /\ wallClock < MaxClock
    /\ wallClock' = wallClock + 1
    /\ UNCHANGED <<wallConf, fixedReq, fixedAt, syncReq, syncAt>>
    /\ UNCHANGED <<svcVars, updVars, handedOut, srcVars, queue, leaseVars, wrkVars, syncVars>>
    /\ UNCHANGED <<rngVars, beatVars>>

\* FixedDepthJobSource builds the parameters of an acquisition call.
WallFixedRequest ==
    /\ fixedReq' = FixedRequestTime(wallConf, wallClock)
    /\ fixedAt' = wallClock
    /\ UNCHANGED <<wallClock, wallConf, syncReq, syncAt>>
    /\ UNCHANGED <<svcVars, updVars, handedOut, srcVars, queue, leaseVars, wrkVars, syncVars>>
    /\ UNCHANGED <<rngVars, beatVars>>

\* SynchronousJobSource.get_jobs builds the parameters of its acquisition
\* call.
WallSyncRequest ==
    /\ syncReq' = SyncRequestTime(wallConf, wallClock)
    /\ syncAt' = wallClock
    /\ UNCHANGED <<wallClock, wallConf, fixedReq, fixedAt>>
    /\ UNCHANGED <<svcVars, updVars, handedOut, srcVars, queue, leaseVars, wrkVars, syncVars>>
    /\ UNCHANGED <<rngVars, beatVars>>

\* Both job sources have just been constructed with the same ceiling, or
\* with none.
InitWall ==
    /\ InitQueues
    /\ RangesIdle
    /\ svcPc = "off" /\ started = FALSE
    /\ updPc = "init"
    /\ sessState = "none" /\ timer = "none" /\ lastTick = "none"
    /\ schedId = NoneInt
    /\ workerPc = [w \in Workers |-> "idle"]
    /\ syncPc = "off"
    /\ wallClock = 0
    /\ wallConf \in {NoneInt} \cup {SomeInt(m) : m \in 1..MaxWallTime}
    /\ fixedReq = NoneInt /\ fixedAt = -1
    /\ syncReq = NoneInt /\ syncAt = -1

NextWall == WallTick \/ WallFixedRequest \/ WallSyncRequest

SpecWall == InitWall /\ [][NextWall]_vars

\* ------------------------------------------------------------ claims
\* A worker that caught an exception holds the job as FAILED, with state
\* metadata that is not empty and carries the exception's text.
C1_Caught ==
    \A w \in Workers :
        workerExc[w] # NoExc =>
            /\ workerPc[w] = "ran"
            /\ workerJob[w].state = "FAILED"
            /\ workerJob[w].state_data.none = FALSE
            /\ workerJob[w].state_data.items # {}
            /\ <<"exception", workerExc[w]>> \in workerJob[w].state_data.items

\* No job has two records on the status queue.
C1_OneRecordPerJob ==
    \A i \in 1..Len(statusQueue), j \in 1..Len(statusQueue) :
        statusQueue[i].id = statusQueue[j].id => i = j

\* The step in which a worker that caught an exception moves on appends one
\* record to the status queue: for that job, FAILED, with that metadata.
C1_Enqueued ==
    \A w \in Workers :
        (workerExc[w] # NoExc /\ workerPc'[w] # workerPc[w]) =>
            /\ Len(statusQueue') = Len(statusQueue) + 1
            /\ SubSeq(statusQueue', 1, Len(statusQueue)) = statusQueue
            /\ LET rec == statusQueue'[Len(statusQueue')] IN
                /\ rec.id = workerJob[w].id
                /\ rec.state = "FAILED"
                /\ rec.state_data.items # {}
                /\ <<"exception", workerExc[w]>> \in rec.state_data.items

\* C1: when the transition function selected for a dequeued job raises, the
\* worker enqueues exactly one status record for that job, whose state is
\* FAILED and whose state metadata is not empty and carries the exception's
\* text.
C1_FailedRecord == [](C1_Caught /\ C1_OneRecordPerJob) /\ [][C1_Enqueued]_vars

\* C1 witness: a FAILED record is on the status queue for an exception that
\* carried no text, after an earlier job of the same worker was reported.
C1_Witness ==
    \E i \in 1..Len(statusQueue) :
        /\ statusQueue[i].state = "FAILED"
        /\ <<"exception", "">> \in statusQueue[i].state_data.items
        /\ statusQueue[i].id > 1

\* C2 as claimed: a worker process that has not been signalled never leaves
\* its loop, whatever job it dequeued.
C2_WorkerNeverEnds ==
    \A w \in Workers : workerPc[w] \in {"exited", "crashed"} => workerExit[w]

\* C3 as claimed, in the form a finished run decides: when join() has returned
\* after every worker and the job source left their loops on the signal, each
\* job the source acquired has had a status record enqueued.
C3_AllAcquiredReported ==
    (/\ svcPc = "done"
     /\ srcPc = "exited"
     /\ \A w \in Workers : workerPc[w] = "exited")
        => \A j \in 1..handedOut : j \in reported

\* Once the status updater has been told to terminate every worker process
\* has ended.
C4_WorkersEnded ==
    updPc \in {"terminated", "joined"} =>
        \A w \in Workers : workerPc[w] \in {"exited", "crashed"}

\* No step adds a record to the status queue of an updater that has been told
\* to terminate.
C4_NoPut == updPc \in {"terminated", "joined"} => Len(statusQueue') <= Len(statusQueue)

\* C4: join() tells the status updater to terminate only once every worker
\* process has ended, and from then on no status record is enqueued.
C4_NoStatusAfterUpdaterTerminate == []C4_WorkersEnded /\ [][C4_NoPut]_vars

\* C4 witness: the updater has been told to terminate with every worker out
\* of its loop on the signal, a record still on the status queue and a job
\* still on the job queue.
C4_Witness ==
    /\ updPc = "terminated"
    /\ statusQueue # <<>>
    /\ queue # <<>>
    /\ \A w \in Workers : workerPc[w] = "exited"

\* C5 as claimed: no session.tick() is issued once session.delete() has
\* returned.
C5_NoTickAfterClose == ~lateTick

\* C6 as claimed: however often terminate() is called, session.delete() is
\* issued at most once.
C6_DeleteOnce == deleteCalls <= 1

\* C7 as claimed, in the form a finished run decides: when the job source
\* process has ended after receiving the signal, its timer is cancelled and
\* its session deleted.
C7_SignalledSourceCloses ==
    (srcExit /\ srcPc \in {"exited", "crashed"}) =>
        (timer = "cancelled" /\ sessState = "deleted")

\* C8 as claimed: when the session has been deleted no worker has a job in
\* hand.
C8_LeaseReleasedAfterWorkers ==
    sessState = "deleted" => \A w \in Workers : workerPc[w] \notin {"busy", "ran"}

\* C9: in a cycle that read a queue size below prefetch_depth exactly one
\* acquisition call was issued, for prefetch_depth minus that size jobs; in a
\* cycle that read prefetch_depth or more, none.
C9_FetchCount ==
    /\ srcPc = "acquiring" => cycleCalls = 1
    /\ srcQsize >= 0 =>
        IF srcQsize >= PrefetchDepth
        THEN cycleCalls = 0 /\ lastRequest = 0
        ELSE cycleCalls = 1 /\ lastRequest = PrefetchDepth - srcQsize

\* C9 witness: with one job on the queue the cycle asked for prefetch_depth - 1.
C9_Witness ==
    /\ srcPc = "acquiring"
    /\ srcQsize = 1
    /\ lastRequest = PrefetchDepth - 1

\* A get_jobs that returned handed its caller exactly what its acquisition
\* call returned, and between calls every job the session ever acquired has
\* been handed to the caller.
C10_OneCallNoBuffer ==
    /\ syncAcqCalls <= syncOps
    /\ (syncLastOp = "get_jobs" /\ syncPc = "ready") => syncReturned = syncResponse
    /\ syncPc = "ready" => syncHanded = 1..handedOut

\* A step issues an acquisition call exactly when it begins a get_jobs call,
\* and then one.
C10_CallCounts ==
    syncAcqCalls' = IF syncOps' # syncOps /\ syncLastOp' = "get_jobs"
                    THEN syncAcqCalls + 1 ELSE syncAcqCalls

\* The steps of start() and join() change nothing but the count of calls.
C10_StartJoinFrame ==
    (syncOps' # syncOps /\ syncLastOp' \in {"start", "join"}) =>
        UNCHANGED <<handedOut, lastRequest, leaseVars, syncPc,
                    syncAcqCalls, syncResponse, syncReturned, syncHanded>>

\* C10: each get_jobs call issues exactly one acquisition call and returns
\* exactly the jobs that call returned, the source holds back no acquired job,
\* and start() and join() change no state.
C10_SyncGetJobs ==
    []C10_OneCallNoBuffer /\ [][C10_CallCounts /\ C10_StartJoinFrame]_vars

\* C10 witness: get_jobs has returned two jobs after start() was called.
C10_Witness ==
    /\ syncLastOp = "get_jobs"
    /\ syncPc = "ready"
    /\ Len(syncReturned) = 2
    /\ syncOps >= 2

\* The components started so far are the first ones of the body of start(),
\* in its order, each once.
C11_InOrder ==
    /\ Len(startLog) <= Len(StartOrder)
    /\ startLog = SubSeq(StartOrder, 1, Len(startLog))

\* A component runs only if start() has started it.
C11_StartedOnly ==
    /\ updPc # "init" => Component("status_updater", 0) \in Range(startLog)
    /\ srcPc # "idle" => Component("job_source", 0) \in Range(startLog)
    /\ \A w \in Workers :
        workerPc[w] # "idle" => Component("worker", w) \in Range(startLog)

\* A call of start() made when self._started is set changes nothing: the
\* step that begins it leaves all but the count of calls as it was.
C11_SecondCallNoOp ==
    (startCalls' # startCalls /\ started) =>
        UNCHANGED <<svcPc, svcIdx, started, startLog, updVars, handedOut,
                    srcVars, queue, leaseVars, wrkVars, syncVars>>

\* C11: start() starts the status updater, then the job source, then every
\* worker, in that order, and a second or later call of start() starts no
\* component again and changes no state.
C11_StartOrderIdempotent ==
    [](C11_InOrder /\ C11_StartedOnly) /\ [][C11_SecondCallNoOp]_vars

\* C11 witness: the last of three calls of start() has been made, every
\* component was started once, and a job has been reported since.
C11_Witness ==
    /\ startCalls = MaxStartCalls
    /\ started
    /\ startLog = StartOrder
    /\ reported # {}

\* C12 as claimed: once an acquisition call has raised inside the prefetch
\* loop and the job source process has ended, the service shuts down: every
\* worker ends, the status updater is terminated and the session is deleted.
C12_SourceFailureShutsDown ==
    (srcPc = "crashed") ~>
        (/\ \A w \in Workers : workerPc[w] \in {"exited", "crashed"}
         /\ updPc \in {"terminated", "joined"}
         /\ sessState = "deleted")

\* C13 as claimed: no failing tick reaches the owner of the lease, and after
\* a failed tick of a live lease whose timer was not cancelled a timer is set
\* or being set for the next one.
C13_FailedTickTolerated ==
    /\ syncPc # "init_raised"
    /\ (lastTick = "failed" /\ sessState = "live" /\ timer # "cancelled") =>
            (timer = "pending" \/ (timer = "fired" /\ cbPc = "rearm"))

\* The node counts a list of buckets covers at position i.
C14_Covered(i) == result[i].lower .. result[i].upper

\* The buckets appended so far partition the node counts above num_nodes up
\* to the argument: each count lies in exactly one bucket, no bucket covers
\* anything else, no bucket is empty, and each bucket lies wholly above the
\* next.
C14_PartitionSoFar ==
    /\ num_nodes >= 0
    /\ \A k \in (num_nodes + 1)..nodesArg :
        \E i \in 1..Len(result) :
            /\ k \in C14_Covered(i)
            /\ \A j \in 1..Len(result) : k \in C14_Covered(j) => j = i
    /\ \A i \in 1..Len(result) :
        /\ result[i].lower <= result[i].upper
        /\ C14_Covered(i) \subseteq (num_nodes + 1)..nodesArg
        /\ i < Len(result) => result[i + 1].upper < result[i].lower
    /\ result # <<>> => result[1].upper = nodesArg

\* The function has returned only with nothing left below the buckets, and
\* for 0 nodes with the empty list.
C14_Returned ==
    rngPc = "done" =>
        /\ num_nodes = 0
        /\ nodesArg = 0 => result = <<>>

\* Each pass of the loop lowers num_nodes, so the loop ends.
C14_Decreases == num_nodes' # num_nodes => num_nodes' < num_nodes

\* C14: the buckets get_node_ranges returns partition 1..num_nodes: every
\* node count lies in exactly one bucket, each bucket has lower <= upper, the
\* buckets are listed from the top range downward, the function returns, and
\* for num_nodes = 0 it returns the empty list.
C14_Partition ==
    [](C14_PartitionSoFar /\ C14_Returned) /\ [][C14_Decreases]_vars

\* C14 witness: the function has returned four buckets for nine nodes.
C14_Witness ==
    /\ rngPc = "done"
    /\ nodesArg = 9
    /\ Len(result) = 4

\* 2 to the power i.
RECURSIVE C15_Pow2(_)
C15_Pow2(i) == IF i = 0 THEN 1 ELSE 2 * C15_Pow2(i - 1)

\* C15: for num_nodes >= 1, a bucket at position i, counted from 0 at the
\* top, whose upper bound is above 1 has multiplier prefetch_factor * 2^i, and
\* the list a call returns ends with the bucket (1, 1), whose multiplier is
\* single_node_prefetch_factor.
C15_Multipliers ==
    /\ \A i \in 1..Len(result) :
        result[i].upper > 1 => result[i].count = prefetch_factor * C15_Pow2(i - 1)
    /\ (rngPc = "done" /\ nodesArg >= 1) =>
        /\ result # <<>>
        /\ result[Len(result)] =
                [lower |-> 1, upper |-> 1, count |-> single_node_prefetch_factor]

\* C15 witness: a call for eight nodes with factors 2 and 1 has returned
\* multipliers 2, 4, 8 and then 1.
C15_Witness ==
    /\ rngPc = "done"
    /\ nodesArg = 8 /\ prefetch_factor = 2 /\ single_node_prefetch_factor = 1
    /\ [i \in 1..Len(result) |-> result[i].count] = <<2, 4, 8, 1>>

\* n / 2 rounded up.
C16_CeilHalf(n) == (n + 1) \div 2

\* C16 as claimed: every bucket made for a remaining node count n > 1 covers
\* ceil(n/2)+1 .. n, and the bucket made for n = 1 covers 1.
C16_CeilRange ==
    \A i \in 1..Len(result) :
        IF result[i].upper > 1
        THEN result[i].lower = C16_CeilHalf(result[i].upper) + 1
        ELSE result[i].lower = 1 /\ result[i].upper = 1

\* The step that appends a bucket for the remaining node count n = num_nodes
\* appends one that ends at n and begins at floor(n/2)+1 if n > 1, at 1 if
\* n = 1.
C16_Appended ==
    result' # result =>
        /\ Len(result') = Len(result) + 1
        /\ SubSeq(result', 1, Len(result)) = result
        /\ result'[Len(result')].upper = num_nodes
        /\ result'[Len(result')].lower =
                IF num_nodes > 1 THEN num_nodes \div 2 + 1 ELSE 1

\* C16 amended: every bucket made for a remaining node count n > 1 covers
\* floor(n/2)+1 .. n, which is ceil(n/2)+1 .. n for even n only, and the
\* bucket made for n = 1 covers 1.
C16_FloorRange ==
    [](\A i \in 1..Len(result) :
          IF result[i].upper > 1
          THEN result[i].lower = result[i].upper \div 2 + 1
          ELSE result[i].lower = 1 /\ result[i].upper = 1)
    /\ [][C16_Appended]_vars

\* C16 witness: a bucket for an odd remaining count, 7, begins at 4.
C16_Witness ==
    \E i \in 1..Len(result) : result[i].upper = 7 /\ result[i].lower = 4

\* The transition function the claim names for a job state.
C17_Selected(state) ==
    IF state = "STAGED_IN" THEN "preprocess"
    ELSE IF state = "RUN_DONE" THEN "postprocess"
    ELSE IF state = "RUN_ERROR" THEN "handle_error"
    ELSE "handle_timeout"

\* When the worker is through with a dequeued job, the transition function
\* its dequeue state selects has been called for it, once, and no other.
C17_ThroughWithJob(w) ==
    workerPc[w] \in {"ran", "crashed"} /\ workerRan[w].state # "None"

\* C17 as claimed: for each dequeued job exactly one transition function is
\* run, the one its state at dequeue time selects, and it is run once.
C17_OneFunctionByState ==
    \A w \in Workers :
        C17_ThroughWithJob(w) =>
            workerRan[w].funcs = <<C17_Selected(workerRan[w].state)>>

\* With a ceiling configured, a request made at some elapsed time carries the
\* ceiling minus that time, whichever job source made it, so that requests
\* the two made at the same time carry the same value.
C18_Value ==
    ~wallConf.none =>
        /\ fixedAt >= 0 => fixedReq = SomeInt(2 * wallConf.val - fixedAt)
        /\ syncAt >= 0 => syncReq = SomeInt(2 * wallConf.val - syncAt)
        /\ (fixedAt >= 0 /\ syncAt = fixedAt) => syncReq = fixedReq

\* From one request of a job source to its next the value does not go up.
C18_NoIncrease ==
    /\ (fixedAt >= 0 /\ ~fixedReq.none) => fixedReq'.val <= fixedReq.val
    /\ (syncAt >= 0 /\ ~syncReq.none) => syncReq'.val <= syncReq.val

\* C18 as claimed: with a wall-time ceiling configured, the remaining wall
\* time in every acquisition request of either job source is the ceiling
\* minus the minutes elapsed since construction, the same for both, and it
\* never increases from one request to the next.
C18_RemainingWallTime == []C18_Value /\ [][C18_NoIncrease]_vars

\* The batch jobs of the site that carry the scheduler id the lease was
\* opened with.
C19_Found == {b \in BatchJobs : ~schedId.none /\ b.scheduler_id = schedId.val}

\* C19: a scheduler id whose lookup finds no batch job does not end the
\* opening of the lease: whenever the opening is over a session has been
\* created and the heartbeat timer started, and a session is bound to no
\* batch job (batch_job_id is None) unless the lookup found one, whose id it
\* then carries.
C19_LookupMissNotFatal ==
    /\ syncPc \notin {"open", "arm"} => (sessState # "none" /\ timer # "none")
    /\ sessState # "none" =>
        /\ C19_Found = {} => sessBatchJob = NoneInt
        /\ \A b \in C19_Found : sessBatchJob = SomeInt(b.id)

\* C19 witness: a lease opened with a scheduler id that has no batch job is
\* ready, its session unbound, its timer pending and its first tick sent.
C19_Witness ==
    /\ syncPc = "ready"
    /\ ~schedId.none
    /\ C19_Found = {}
    /\ sessBatchJob = NoneInt
    /\ sessState = "live" /\ timer = "pending" /\ lastTick = "ok"

\* A signalled worker that has run the transition of the job in hand next
\* puts that job's record on the status queue and is back at the loop test;
\* a signalled worker at the loop test leaves the loop and pops nothing.
C20_FinishThenExit ==
    \A w \in Workers :
        /\ (workerExit[w] /\ workerPc[w] = "ran" /\ workerPc'[w] # "ran") =>
            /\ workerPc'[w] = "check"
            /\ statusQueue' = Append(statusQueue, StatusRecord(workerJob[w]))
        /\ (workerExit[w] /\ workerPc[w] = "check" /\ workerPc'[w] # "check") =>
            /\ workerPc'[w] = "exited"
            /\ queue' = queue

\* C20: once terminate() has signalled the workers, every worker leaves its
\* loop: an idle one at its next loop test after the pop timed out, one with
\* a job in transition after it has put that job's record and without
\* popping another; and join() returns.
C20_WorkersExitJoinReturns ==
    /\ \A w \in Workers :
        workerExit[w] ~> (workerPc[w] \in {"exited", "crashed"})
    /\ (svcPc = "join_workers") ~> (svcPc = "done")
    /\ [][C20_FinishThenExit]_vars

\* C20 witness: join() waits for a signalled worker that has a job in hand,
\* its transition done, while another worker has left its loop idle.
C20_Witness ==
    /\ svcPc = "join_workers"
    /\ \E w \in Workers, v \in Workers :
        /\ workerExit[w] /\ workerPc[w] = "ran"
        /\ workerExit[v] /\ workerPc[v] = "exited"

\* The lease has been opened, its first timer armed, and its close has not
\* begun.
C21_LeaseOpen == timer # "none" /\ deleteCalls = 0 /\ syncPc # "term_delete"

\* C21 as claimed: at every moment between the opening of a lease and its
\* close exactly one timer is pending.
C21_ExactlyOnePending == C21_LeaseOpen => timer = "pending"

\* C21 amended: between the opening of a lease and its close there is exactly
\* one live heartbeat task, which is the one pending timer or, from the
\* moment that timer fired until its callback has armed the next, that
\* callback, with no timer pending; there are never two; and each fired
\* timer produces exactly one tick, made once its callback has armed the next
\* timer.
C21_OneHeartbeatTask ==
    /\ C21_LeaseOpen =>
        \/ timer = "pending" /\ cbPc # "rearm"
        \/ timer = "fired" /\ cbPc = "rearm"
    /\ timerFires = cbTicks + (IF cbPc = "idle" THEN 0 ELSE 1)

\* C21 witness: an open lease whose second timer has fired is being re-armed
\* by the callback, the first callback having made its tick.
C21_Witness ==
    /\ C21_LeaseOpen
    /\ timer = "fired" /\ cbPc = "rearm"
    /\ timerFires = 2 /\ cbTicks = 1

\* C22: the local queue of the prefetching source never holds more than
\* prefetch_depth jobs, whatever the interleaving of the prefetch loop with
\* the workers popping it, acquire_jobs returning at most max_num_jobs jobs:
\* while a request is out, the queue and the request together stay within
\* the depth.
C22_BoundedQueue ==
    /\ Len(queue) <= PrefetchDepth
    /\ srcPc = "acquiring" => Len(queue) + lastRequest <= PrefetchDepth

\* C22 witness: the queue is full again after a refill, workers having popped
\* jobs of an earlier batch, one of them still at work.
C22_Witness ==
    /\ Len(queue) = PrefetchDepth
    /\ handedOut > PrefetchDepth
    /\ \E w \in DOMAIN workerPc : workerPc[w] = "busy"

\* The worker processes.
C23_Workers == DOMAIN workerPc

\* C23: with the workers popping the shared queue concurrently, each job put
\* on the queue is got by at most one worker, transition(app) is called for
\* it at most once, at most one status record carrying its id is enqueued,
\* and no two workers hold the same job at the same time.
C23_SingleConsumer ==
    /\ \A id \in DOMAIN dequeues :
        /\ id \in 1..handedOut
        /\ dequeues[id] <= 1
    /\ \A id \in DOMAIN transitions :
        /\ transitions[id] <= 1
        /\ transitions[id] <= Count(dequeues, id)
    /\ \A id \in DOMAIN records :
        /\ records[id] <= 1
        /\ records[id] <= Count(transitions, id)
    /\ \A v, w \in C23_Workers :
        (v # w /\ workerJob[v] # NoJob /\ workerJob[w] # NoJob)
            => workerJob[v].id # workerJob[w].id

\* C23 witness: two workers have each run the transition of a job of their
\* own at the same time, after the status record of an earlier job was
\* enqueued.
C23_Witness ==
    \E v, w \in C23_Workers :
        /\ v # w
        /\ workerPc[v] = "ran" /\ workerPc[w] = "ran"
        /\ workerJob[v].id # workerJob[w].id
        /\ Count(transitions, workerJob[v].id) = 1
        /\ Count(transitions, workerJob[w].id) = 1
        /\ \E id \in DOMAIN records : records[id] = 1

\* C24 as claimed: no acquire_jobs call is out on a session that has been
\* deleted, neither from the prefetch loop nor from get_jobs of the
\* synchronous source.
C24_NoAcquireOnDeleted ==
    /\ srcPc = "acquiring" => sessState # "deleted"
    /\ syncPc = "in_acquire" => sessState # "deleted"

====
